---- MODULE Spec2Model ----
(***************************************************************************)
(* Model of the nuclear-detonation dashboard of src/final.py.              *)
(*                                                                         *)
(* The dashboard is a Streamlit script: the first page view and every      *)
(* later widget interaction run main() from its first line to its last.    *)
(* One action of the model is one such run of main(), preceded by the      *)
(* widget change that triggered it.  The input file is fixed during a      *)
(* session.                                                                *)
(*                                                                         *)
(* Representation.  A calendar date / Timestamp at midnight is the integer *)
(* year*10000 + month*100 + day, which is the value pandas builds when it  *)
(* assembles a date from year/month/day columns.  A missing float is NaN,  *)
(* a missing datetime is NaT, a missing string cell is NA.  A data frame   *)
(* is a sequence of rows; the field idx of a row is its pandas index.      *)
(***************************************************************************)
EXTENDS Integers, Sequences, FiniteSets, TLC

VARIABLES csv, df, loads, runs, status,
          selected_dates, selected_countries, selected_purposes, selected_types,
          filtered_df, country_counts, total, avg_yield, max_yield,
          time_series, purpose_counts, type_counts

vars == <<csv, df, loads, runs, status,
          selected_dates, selected_countries, selected_purposes, selected_types,
          filtered_df, country_counts, total, avg_yield, max_yield,
          time_series, purpose_counts, type_counts>>

\* ---------------------------------------------------------------- bounds
MaxRows == 2
MaxRuns == 3

\* ------------------------------------------------------- missing values
NaN == -1
NaT == 0
NA == "NaN"

\* ------------------------------------------------------ lookup tables
COUNTRIES ==
  ( "USA" :> "United States" @@ "USSR" :> "Soviet Union"
 @@ "UK" :> "United Kingdom" @@ "FRANCE" :> "France"
 @@ "CHINA" :> "China" @@ "INDIA" :> "India" )

PURPOSE_DICT ==
  ( "Combat" :> "Combat" @@ "Wr" :> "Weapons development"
 @@ "We" :> "Weapons Evaluation" @@ "Fms" :> "Soviet Phenomenon Study"
 @@ "Me" :> "Military Exercise" @@ "Pne" :> "Peaceful Nuclear Explosion"
 @@ "Sam" :> "Soviet Emergency Test" @@ "Se" :> "Safety Testing"
 @@ "Transp" :> "Transportation purposes" )

TYPE_DICT ==
  ( "Atmosph" :> "Atmospheric" @@ "Airdrop" :> "Airplane Deployed"
 @@ "Tower" :> "Constructed Tower" @@ "Surface" :> "Ground Level"
 @@ "UW" :> "Underwater" @@ "Shaft" :> "Underground Shaft"
 @@ "Tunnel" :> "Underground Tunnel" @@ "Barge" :> "Barge Platform"
 @@ "Balloon" :> "Aerial Balloon" @@ "Rocket" :> "Missile Launch"
 @@ "Ship" :> "Naval Vessel" @@ "Crater" :> "Surface Crater" )

Range(f) == {f[x] : x \in DOMAIN f}

\* ------------------------------------------------------------- inputs
\* Rows the input file may hold, after the column renaming of the loader.
RowPool ==
  { [Country |-> "USA",    Purpose |-> "Wr",  Type |-> "Tower",
     Year |-> 1945, Month |-> 7, Day |-> 16, Yield |-> 21],
    [Country |-> "USSR",   Purpose |-> "We",  Type |-> "Shaft",
     Year |-> 1949, Month |-> 8, Day |-> 29, Yield |-> 22],
    [Country |-> "PAKIST", Purpose |-> "Nw",  Type |-> NA,
     Year |-> 1947, Month |-> 1, Day |-> 1,  Yield |-> NaN],
    [Country |-> NA,       Purpose |-> NA,    Type |-> "Gallery",
     Year |-> 1949, Month |-> 8, Day |-> 29, Yield |-> 0],
    [Country |-> "USA",    Purpose |-> "Wr",  Type |-> "Tower",
     Year |-> NaN,  Month |-> 7, Day |-> 16, Yield |-> 5],
    [Country |-> "FRANCE", Purpose |-> "Pne", Type |-> "Shaft",
     Year |-> 1945, Month |-> 2, Day |-> 30, Yield |-> 5] }

\* Calendar dates the user may pick in the date input.
DatePool == {19450716, 19470101, 19490829}

HasDateFields(r) == r.Year # NaN /\ r.Month # NaN /\ r.Day # NaN

\* Files of at most MaxRows rows.  The bounds of the date input are the
\* minimum and maximum date of the data, so a file needs one dated row for
\* the control panel to be built.
Files ==
  { f \in UNION { [1..n -> RowPool] : n \in 1..MaxRows } :
      \E i \in DOMAIN f : HasDateFields(f[i]) }

\* ------------------------------------------------------------- loader
IsLeap(y) == (y % 4 = 0 /\ y % 100 # 0) \/ y % 400 = 0

DaysInMonth(y, m) ==
  IF m = 2 THEN (IF IsLeap(y) THEN 29 ELSE 28)
  ELSE IF m \in {4, 6, 9, 11} THEN 30 ELSE 31

IsValidDate(y, m, d) ==
  /\ y \in 1..9999
  /\ m \in 1..12
  /\ d \in 1..DaysInMonth(y, m)

\* pd.to_datetime of one row of year/month/day, errors='raise' (the default):
\* a missing component gives NaT, an impossible calendar date raises.
to_datetime_raises(r) ==
  HasDateFields(r) /\ ~IsValidDate(r.Year, r.Month, r.Day)

to_datetime(r) ==
  IF HasDateFields(r) THEN r.Year * 10000 + r.Month * 100 + r.Day ELSE NaT

dt_year(date) == IF date = NaT THEN NaN ELSE date \div 10000

Decade(year) == IF year = NaN THEN NaN ELSE (year \div 10) * 10

\* Series.map(dict): a key that is not in the dict (a missing cell
\* included) gives a missing value.
MapDict(dict, code) == IF code \in DOMAIN dict THEN dict[code] ELSE NA

\* fillna left out: a missing label stays missing.
fillna_noop(x, v) == x

fillna(x, v) == IF x = NA THEN v ELSE x

CleanRow(r, i) ==
  LET date == to_datetime(r) IN
  [ idx           |-> i,
    Country       |-> fillna(MapDict(COUNTRIES, r.Country), "Other"),
    Purpose       |-> r.Purpose,
    Type          |-> r.Type,
    Purpose_Label |-> fillna(MapDict(PURPOSE_DICT, r.Purpose), "Other"),
    Type_Label    |-> fillna(MapDict(TYPE_DICT, r.Type), "Other"),
    Date          |-> date,
    Year          |-> dt_year(date),
    Decade        |-> Decade(dt_year(date)),
    Yield         |-> r.Yield ]

load_and_clean_data(file) ==
  IF \E i \in DOMAIN file : to_datetime_raises(file[i])
  THEN [raised |-> TRUE, df |-> << >>]
  ELSE [raised |-> FALSE, df |-> [i \in DOMAIN file |-> CleanRow(file[i], i)]]

\* ------------------------------------------------------ frame helpers
Col(d, name) == {d[i][name] : i \in DOMAIN d}

value_counts(d, name) ==
  [l \in Col(d, name) |-> Cardinality({i \in DOMAIN d : d[i][name] = l})]

SetMin(S) == CHOOSE x \in S : \A y \in S : x <= y
SetMax(S) == CHOOSE x \in S : \A y \in S : x >= y

RECURSIVE SetSum(_, _)
SetSum(S, f) ==
  IF S = {} THEN 0
  ELSE LET x == CHOOSE y \in S : TRUE IN f[x] + SetSum(S \ {x}, f)

Dates(d) == Col(d, "Date") \ {NaT}

min_date(d) == SetMin(Dates(d))
max_date(d) == SetMax(Dates(d))

\* ------------------------------------------------------ control panel
\* The default range collapsed to its lower bound.
DefaultDates_min(d) == <<min_date(d), min_date(d)>>

DefaultDates(d) == <<min_date(d), max_date(d)>>

all_countries(d) == Col(d, "Country")
purpose_options(d) == Col(d, "Purpose_Label")
type_options(d) == Col(d, "Type_Label")

\* What the date input can return: one date while the user is picking the
\* range, otherwise a (start, end) pair inside [min_value, max_value].
DateSelections(d) ==
  LET P == {x \in DatePool : min_date(d) <= x /\ x <= max_date(d)} IN
  {<<a>> : a \in P} \cup {s \in P \X P : s[1] <= s[2]}

\* ----------------------------------------------------------- filtering
\* The masks joined with | instead of &.
CategoryMask_or(r, sc, sp, st) ==
  \/ r.Country \in sc
  \/ r.Purpose_Label \in sp
  \/ r.Type_Label \in st

CategoryMask(r, sc, sp, st) ==
  /\ r.Country \in sc
  /\ r.Purpose_Label \in sp
  /\ r.Type_Label \in st

\* The bounds compared with > and < instead of >= and <=.
DateMask_exclusive(r, sd) ==
  /\ r.Date # NaT
  /\ r.Date > sd[1]
  /\ r.Date < sd[2]

\* Comparisons with NaT are False.
DateMask(r, sd) ==
  /\ r.Date # NaT
  /\ r.Date >= sd[1]
  /\ r.Date <= sd[2]

Filter(d, sd, sc, sp, st) ==
  LET InCat(r) == CategoryMask(r, sc, sp, st)
      InRange(r) == DateMask(r, sd)
      step1 == SelectSeq(d, InCat)
  IN IF Len(sd) = 2 THEN SelectSeq(step1, InRange) ELSE step1

\* --------------------------------------------------------- aggregation
Yields(f) == {i \in DOMAIN f : f[i].Yield # NaN}

\* Series.mean() skips missing values and is NaN when nothing is left; the
\* metric shows it with one decimal, kept here in tenths of a kiloton.
MeanYield(f) ==
  LET V == Yields(f)
      s == SetSum(V, [i \in V |-> f[i].Yield])
      n == Cardinality(V)
  IN IF n = 0 THEN NaN ELSE (20 * s + n) \div (2 * n)

MaxYield(f) ==
  IF Yields(f) = {} THEN NaN ELSE SetMax({f[i].Yield : i \in Yields(f)})

\* resample('Y', on='Date').size(): one bin per calendar year from the first
\* to the last year of the view, empty years counted as 0.
Timeline(f) ==
  LET Y == {dt_year(x) : x \in Dates(f)} IN
  IF Y = {} THEN << >>
  ELSE [y \in SetMin(Y)..SetMax(Y) |->
          Cardinality({i \in DOMAIN f : f[i].Year = y})]

\* The totals taken from the filtered view instead of the base set.
CountryTotals_view(d, f) == value_counts(f, "Country")

\* Totals by country of the static chart.
CountryTotals(d, f) == value_counts(d, "Country")

\* pandas' plotting of an empty Series depends on the installed version:
\* it either draws an empty chart or raises.
PlotOutcomes(counts) ==
  IF DOMAIN counts = {} THEN {"ok", "raise"} ELSE {"ok"}

Empty == << >>

\* ------------------------------------------------------ one run of main
\* first: no widget state exists yet, so every widget takes its default.
\* w: the widget state the run starts from.
Main(first, w) ==
  LET res == load_and_clean_data(csv) IN
  /\ loads' = loads + 1
  /\ runs' = runs + 1
  /\ UNCHANGED csv
  /\ IF res.raised
     THEN /\ status' = "load_raised"
          /\ df' = Empty
          /\ filtered_df' = Empty
          /\ country_counts' = Empty
          /\ total' = 0
          /\ avg_yield' = NaN
          /\ max_yield' = NaN
          /\ time_series' = Empty
          /\ purpose_counts' = Empty
          /\ type_counts' = Empty
          /\ UNCHANGED <<selected_dates, selected_countries,
                         selected_purposes, selected_types>>
     ELSE /\ df' = res.df
          /\ selected_dates' = IF first THEN DefaultDates(df') ELSE w.dates
          /\ selected_countries' =
               IF first THEN all_countries(df') ELSE w.countries
          /\ selected_purposes' =
               IF first THEN purpose_options(df') ELSE w.purposes
          /\ selected_types' = IF first THEN type_options(df') ELSE w.types
          /\ filtered_df' = Filter(df', selected_dates', selected_countries',
                                   selected_purposes', selected_types')
          /\ country_counts' = CountryTotals(df', filtered_df')
          /\ total' = Len(filtered_df')
          /\ avg_yield' = MeanYield(filtered_df')
          /\ max_yield' = MaxYield(filtered_df')
          /\ time_series' = Timeline(filtered_df')
          /\ purpose_counts' = value_counts(filtered_df', "Purpose_Label")
          /\ \E pie \in PlotOutcomes(purpose_counts') :
               IF pie = "raise"
               THEN /\ status' = "purpose_plot_raised"
                    /\ type_counts' = Empty
               ELSE /\ type_counts' = value_counts(filtered_df', "Type_Label")
                    /\ \E barh \in PlotOutcomes(type_counts') :
                         status' = IF barh = "raise" THEN "type_plot_raised"
                                   ELSE "completed"

Widgets ==
  [dates |-> selected_dates, countries |-> selected_countries,
   purposes |-> selected_purposes, types |-> selected_types]

Toggle(S, x) == IF x \in S THEN S \ {x} ELSE S \cup {x}

\* The sidebar was built by the last run, so its widgets can be used.
CanInteract ==
  /\ status \in {"completed", "purpose_plot_raised", "type_plot_raised"}
  /\ runs < MaxRuns + 1

\* ------------------------------------------------------------- actions
Init ==
  /\ csv \in Files
  /\ df = Empty
  /\ loads = 0
  /\ runs = 0
  /\ status = "not_started"
  /\ selected_dates = << >>
  /\ selected_countries = {}
  /\ selected_purposes = {}
  /\ selected_types = {}
  /\ filtered_df = Empty
  /\ country_counts = Empty
  /\ total = 0
  /\ avg_yield = NaN
  /\ max_yield = NaN
  /\ time_series = Empty
  /\ purpose_counts = Empty
  /\ type_counts = Empty

\* The user opens the page.
Start ==
  /\ status = "not_started"
  /\ Main(TRUE, Widgets)

\* The user reruns the script without touching a widget.
Rerun ==
  /\ status # "not_started"
  /\ runs < MaxRuns + 1
  /\ Main(FALSE, Widgets)

ChangeDates ==
  /\ CanInteract
  /\ \E sd \in DateSelections(df) \ {selected_dates} :
       Main(FALSE, [Widgets EXCEPT !.dates = sd])

ToggleCountry ==
  /\ CanInteract
  /\ \E c \in all_countries(df) :
       Main(FALSE, [Widgets EXCEPT !.countries = Toggle(@, c)])

\* The button writes all_countries into the session state of the multiselect.
SelectAllCountries ==
  /\ CanInteract
  /\ Main(FALSE, [Widgets EXCEPT !.countries = all_countries(df)])

TogglePurpose ==
  /\ CanInteract
  /\ \E p \in purpose_options(df) :
       Main(FALSE, [Widgets EXCEPT !.purposes = Toggle(@, p)])

ToggleType ==
  /\ CanInteract
  /\ \E t \in type_options(df) :
       Main(FALSE, [Widgets EXCEPT !.types = Toggle(@, t)])

Next ==
  \/ Start
  \/ Rerun
  \/ ChangeDates
  \/ ToggleCountry
  \/ SelectAllCountries
  \/ TogglePurpose
  \/ ToggleType

Spec == Init /\ [][Next]_vars

\* ------------------------------------------------------------ claims
\* The last run loaded the data and built the view.
Loaded == status \in {"completed", "purpose_plot_raised", "type_plot_raised"}

IdxSet(f) == {f[k].idx : k \in DOMAIN f}

InCountry(r) == r.Country \in selected_countries
InPurpose(r) == r.Purpose_Label \in selected_purposes
InType(r) == r.Type_Label \in selected_types
RangeActive == Len(selected_dates) = 2
InDates(r) ==
  RangeActive =>
    /\ r.Date # NaT
    /\ selected_dates[1] <= r.Date
    /\ r.Date <= selected_dates[2]

ByCountry(S) == {i \in S : InCountry(df[i])}
ByPurpose(S) == {i \in S : InPurpose(df[i])}
ByType(S) == {i \in S : InType(df[i])}
ByDates(S) == {i \in S : InDates(df[i])}

InitialControls ==
  /\ Loaded
  /\ selected_dates = DefaultDates(df)
  /\ selected_countries = all_countries(df)
  /\ selected_purposes = purpose_options(df)
  /\ selected_types = type_options(df)

\* C1: the filtered view is exactly the base records that satisfy every
\* active predicate (country, purpose, type, date range); it is the
\* intersection of the per-predicate subsets, and applying the predicates
\* one after the other in any order gives the same view.
C1_FilterIsIntersection ==
  Loaded =>
    LET All == DOMAIN df
        view == IdxSet(filtered_df)
    IN /\ \A k \in DOMAIN filtered_df : filtered_df[k] = df[filtered_df[k].idx]
       /\ Cardinality(view) = Len(filtered_df)
       /\ view = {i \in All : /\ InCountry(df[i]) /\ InPurpose(df[i])
                              /\ InType(df[i]) /\ InDates(df[i])}
       /\ view = ByCountry(All) \cap ByPurpose(All) \cap ByType(All)
                   \cap ByDates(All)
       /\ view = ByDates(ByType(ByPurpose(ByCountry(All))))
       /\ view = ByDates(ByType(ByCountry(ByPurpose(All))))
       /\ view = ByCountry(ByPurpose(ByType(ByDates(All))))

C1_Witness ==
  /\ Loaded
  /\ RangeActive
  /\ filtered_df # << >>
  /\ \E i \in DOMAIN df : InPurpose(df[i]) /\ InType(df[i]) /\ InDates(df[i])
                          /\ ~InCountry(df[i])

\* C2 as stated: with every option selected and the date range from the
\* minimum to the maximum date of the data, the view holds every loaded
\* record.
C2_InitialViewIsFullSet ==
  InitialControls => IdxSet(filtered_df) = DOMAIN df

\* C2 amended: with every option selected and the date range from the
\* minimum to the maximum date of the data, the view holds exactly the
\* loaded records whose date is not missing.
C2_InitialViewIsDatedSet ==
  InitialControls =>
    /\ IdxSet(filtered_df) = {i \in DOMAIN df : df[i].Date # NaT}
    /\ Len(filtered_df) = Cardinality(IdxSet(filtered_df))

C2_Witness ==
  /\ InitialControls
  /\ runs = 1
  /\ \E i \in DOMAIN df : df[i].Date = NaT
  /\ filtered_df # << >>
  /\ Len(filtered_df) < Len(df)

\* C3: with no country selected the country predicate keeps every record,
\* so the view is what the purpose, type and date predicates alone keep.
C3_EmptyCountriesIsNoRestriction ==
  (Loaded /\ selected_countries = {}) =>
    IdxSet(filtered_df) =
      {i \in DOMAIN df : InPurpose(df[i]) /\ InType(df[i]) /\ InDates(df[i])}

\* C4: while a date range is active every record of the view has a date
\* that is not missing and lies between the two bounds, a record dated on
\* a bound is kept, and the date restriction is applied only when the date
\* input holds two dates.
C4_DateRangeInclusive ==
  Loaded =>
    LET cat == {i \in DOMAIN df : /\ InCountry(df[i]) /\ InPurpose(df[i])
                                  /\ InType(df[i])}
    IN /\ RangeActive =>
            /\ \A k \in DOMAIN filtered_df :
                  /\ filtered_df[k].Date # NaT
                  /\ selected_dates[1] <= filtered_df[k].Date
                  /\ filtered_df[k].Date <= selected_dates[2]
            /\ \A i \in cat :
                  df[i].Date \in {selected_dates[1], selected_dates[2]}
                    => i \in IdxSet(filtered_df)
       /\ ~RangeActive => IdxSet(filtered_df) = cat

C4_Witness ==
  /\ Loaded
  /\ RangeActive
  /\ selected_dates # DefaultDates(df)
  /\ \E k \in DOMAIN filtered_df : filtered_df[k].Date = selected_dates[1]
  /\ \E i \in DOMAIN df : df[i].Date # NaT /\ df[i].Date < selected_dates[1]

\* C5: no interaction changes the base set: from one run to the next the
\* base records and the by-country totals taken from them stay the same,
\* and the view is made of records of the base set.
C5_BaseSetUnchanged ==
  [][(Loaded /\ Loaded') =>
        /\ df' = df
        /\ country_counts' = country_counts
        /\ \A k \in DOMAIN filtered_df' :
              filtered_df'[k] = df[filtered_df'[k].idx]]_vars

C5_Witness ==
  /\ Loaded
  /\ runs >= 2
  /\ Len(filtered_df) < Len(df)
  /\ selected_countries # all_countries(df)
  /\ DOMAIN country_counts = all_countries(df)

\* C6: after loading, every record has a yield that is defined and >= 0.
C6_YieldDefinedNonNegative ==
  Loaded => \A i \in DOMAIN df : df[i].Yield # NaN /\ df[i].Yield >= 0

\* C7: a row whose year, month and day are no calendar date does not abort
\* the load; the row gets a missing date, year and decade and all rows are
\* returned.
C7_InvalidDateBecomesMissing ==
  status # "not_started" =>
    /\ status # "load_raised"
    /\ Len(df) = Len(csv)
    /\ \A i \in DOMAIN csv :
          to_datetime_raises(csv[i]) =>
            /\ df[i].Date = NaT
            /\ df[i].Year = NaN
            /\ df[i].Decade = NaN

\* C8: every loaded record carries, for country, purpose and type, the
\* label its lookup table gives to the code, or 'Other' when the code is
\* no key of the table (a missing code included); no label is missing and
\* an unknown code does not make the load fail.
C8_LabelsMappedOrOther ==
  /\ Loaded =>
       /\ Len(df) = Len(csv)
       /\ \A i \in DOMAIN df :
            /\ df[i].Country =
                 IF csv[i].Country \in DOMAIN COUNTRIES
                 THEN COUNTRIES[csv[i].Country] ELSE "Other"
            /\ df[i].Purpose_Label =
                 IF csv[i].Purpose \in DOMAIN PURPOSE_DICT
                 THEN PURPOSE_DICT[csv[i].Purpose] ELSE "Other"
            /\ df[i].Type_Label =
                 IF csv[i].Type \in DOMAIN TYPE_DICT
                 THEN TYPE_DICT[csv[i].Type] ELSE "Other"
            /\ df[i].Country \in Range(COUNTRIES) \cup {"Other"}
            /\ df[i].Purpose_Label \in Range(PURPOSE_DICT) \cup {"Other"}
            /\ df[i].Type_Label \in Range(TYPE_DICT) \cup {"Other"}
  /\ status = "load_raised" => \E i \in DOMAIN csv : to_datetime_raises(csv[i])

C8_Witness ==
  /\ Loaded
  /\ \E i \in DOMAIN df :
        /\ csv[i].Country \notin DOMAIN COUNTRIES
        /\ csv[i].Type = NA
        /\ df[i].Country = "Other"
        /\ df[i].Type_Label = "Other"
  /\ \E i \in DOMAIN df : df[i].Country = "United States"

\* C9: when the selection matches no record the run completes: the count
\* is 0, the mean and the maximum yield are reported as undefined, and the
\* timeline, purpose and type steps after them complete too.
C9_EmptyViewNeverRaises ==
  (status \notin {"not_started", "load_raised"} /\ filtered_df = << >>) =>
    /\ total = 0
    /\ avg_yield = NaN
    /\ max_yield = NaN
    /\ time_series = << >>
    /\ status = "completed"

\* C10: the record set is loaded once per session; an interaction does not
\* read the input file or compute the derived fields again.
C10_LoadedOncePerSession ==
  loads <= 1

====
